---- MODULE Spec2Model ----
(***************************************************************************)
(* Model of scripts/preprocess.py (preprocess_data) and scripts/train.py   *)
(* (train_model): the two stages of the credit-card clustering pipeline,   *)
(* connected through the CSV file data/processed.csv.                      *)
(*                                                                         *)
(* A CSV file is a table of text tokens; a DataFrame is a table of typed   *)
(* cells with a per-column dtype and a row index.  pandas.read_csv and     *)
(* DataFrame.to_csv are modelled as the conversions they are (dtype        *)
(* inference, float formatting), not as the identity.                      *)
(*                                                                         *)
(* Numbers are integers.  The numeric tokens of the input files are even,  *)
(* so the mean of the two middle values that pandas takes as the median of *)
(* an even-sized sample is an integer and \div computes it exactly.        *)
(***************************************************************************)
EXTENDS Integers, Sequences, FiniteSets, TLC

\* ------------------------------------------------------------------ bounds
MaxRows == 3        \* rows of a generated raw input file
MaxPriorRows == 2   \* rows of a processed file found on disk before the run
MaxK == 2           \* largest n_clusters argument tried

\* ------------------------------------------------------------------ cells
\* In-memory cell of a DataFrame: NaN, a number, or a string.
NaN == [tag |-> "nan", num |-> 0, str |-> ""]
Num(n) == [tag |-> "num", num |-> n, str |-> ""]
Str(s) == [tag |-> "str", num |-> 0, str |-> s]

\* The numbers that occur: input tokens, their medians, and the fill value 0.
Nums == {0, 100, 200, 300}

IsIntToken(t) == \E n \in Nums : ToString(n) = t
IsFloatToken(t) == \E n \in Nums : (ToString(n) \o ".0") = t
IsNumToken(t) == IsIntToken(t) \/ IsFloatToken(t)
ParseNum(t) == CHOOSE n \in Nums : ToString(n) = t \/ (ToString(n) \o ".0") = t

\* ------------------------------------------------------------------ helpers
Range(s) == {s[i] : i \in 1..Len(s)}

RECURSIVE SeqSum(_)
SeqSum(s) == IF s = <<>> THEN 0 ELSE Head(s) + SeqSum(Tail(s))

\* ------------------------------------------------------------------ read_csv
\* pandas.read_csv dtype inference for one column of a text table: a column
\* whose non-empty tokens are all numeric is numeric (int64 if it has neither
\* an empty token nor a float token, float64 otherwise; an entirely empty
\* column is float64); any other column is object.
InferDtype(text, c) ==
    LET toks == {text.rows[i][c] : i \in 1..Len(text.rows)} IN
    IF Len(text.rows) = 0 THEN "object"
    ELSE IF \A t \in toks : IsIntToken(t) THEN "int64"
    ELSE IF \A t \in toks : t = "" \/ IsNumToken(t) THEN "float64"
    ELSE "object"

ParseCell(t, dtype) ==
    IF t = "" THEN NaN
    ELSE IF dtype = "object" THEN Str(t)
    ELSE Num(ParseNum(t))

ReadCsv(text) ==
    LET dt == [c \in text.columns |-> InferDtype(text, c)] IN
    [columns |-> text.columns,
     dtypes  |-> dt,
     index   |-> [i \in 1..Len(text.rows) |-> i - 1],
     rows    |-> [i \in 1..Len(text.rows) |->
                    [c \in text.columns |-> ParseCell(text.rows[i][c], dt[c])]]]

\* ------------------------------------------------------------------ DataFrame
\* The DataFrame before anything is loaded.
NoDF == [columns |-> {}, dtypes |-> <<>>, index |-> <<>>, rows |-> <<>>]

NumericDtypes == {"float64", "int64", "float32", "int32"}

\* df.select_dtypes(include=[...]).columns
NumericCols(d) == {c \in d.columns : d.dtypes[c] \in NumericDtypes}

\* df[col].isnull().sum()
ColMissing(d, c) == Cardinality({i \in 1..Len(d.rows) : d.rows[i][c] = NaN})

\* df.isnull().sum().sum()
CountMissing(d) ==
    SeqSum([i \in 1..Len(d.rows) |->
              Cardinality({c \in d.columns : d.rows[i][c] = NaN})])

\* The non-missing values of a column, in row order.
RECURSIVE ColValues(_, _, _)
ColValues(d, c, i) ==
    IF i > Len(d.rows) THEN <<>>
    ELSE IF d.rows[i][c] = NaN THEN ColValues(d, c, i + 1)
    ELSE <<d.rows[i][c].num>> \o ColValues(d, c, i + 1)

\* Series.median() of the non-missing values xs: the middle value of the
\* sorted sample, the mean of the two middle values when the size is even;
\* NaN when there is none.
\* Variant: the lower middle value, without the mean for an even size.
Median_LowerMiddle(xs) ==
    LET s == SortSeq(xs, LAMBDA a, b : a < b)
        n == Len(s)
    IN IF n = 0 THEN NaN ELSE Num(s[(n + 1) \div 2])
Median(xs) ==
    LET s == SortSeq(xs, LAMBDA a, b : a < b)
        n == Len(s)
    IN IF n = 0 THEN NaN
       ELSE IF n % 2 = 1 THEN Num(s[(n + 1) \div 2])
       ELSE Num((s[n \div 2] + s[n \div 2 + 1]) \div 2)

\* fill_value = median_val if pd.notna(median_val) else 0
\* Variant: the median is ignored.
FillValue_AlwaysZero(d, c) == Num(0)
FillValue(d, c) ==
    LET median_val == Median(ColValues(d, c, 1))
    IN IF median_val # NaN THEN median_val ELSE Num(0)

\* df[col] = df[col].fillna(fill_value) for the columns cs.
FillCols(d, cs) ==
    [d EXCEPT
       !.rows = [i \in 1..Len(d.rows) |->
                   [c \in d.columns |->
                      IF c \in cs /\ d.rows[i][c] = NaN
                      THEN FillValue(d, c) ELSE d.rows[i][c]]]]

\* The imputation loop: every numeric column with a missing entry is filled.
\* Variant: the loop runs over all columns, not only the numeric ones.
Imputed_AllColumns(d) == FillCols(d, {c \in d.columns : ColMissing(d, c) > 0})
Imputed(d) == FillCols(d, {c \in NumericCols(d) : ColMissing(d, c) > 0})

\* df.drop_duplicates(): a row is dropped when an earlier row is equal to it
\* in every column (missing entries compare equal); the index is kept.
\* Variant: keep='last'.
IsDuplicate_KeepLast(d, i) == \E j \in (i + 1)..Len(d.rows) : d.rows[j] = d.rows[i]
IsDuplicate(d, i) == \E j \in 1..(i - 1) : d.rows[j] = d.rows[i]

RECURSIVE KeptPositions(_, _)
KeptPositions(d, i) ==
    IF i > Len(d.rows) THEN <<>>
    ELSE IF IsDuplicate(d, i) THEN KeptPositions(d, i + 1)
    ELSE <<i>> \o KeptPositions(d, i + 1)

DropDuplicates(d) ==
    LET keep == KeptPositions(d, 1) IN
    [d EXCEPT !.index = [j \in 1..Len(keep) |-> d.index[keep[j]]],
              !.rows  = [j \in 1..Len(keep) |-> d.rows[keep[j]]]]

\* df.fillna(0)
\* Variant: the fill is not applied.
FillNa0_Skipped(d) == d
FillNa0(d) ==
    [d EXCEPT !.rows = [i \in 1..Len(d.rows) |->
                          [c \in d.columns |->
                             IF d.rows[i][c] = NaN THEN Num(0) ELSE d.rows[i][c]]]]

\* The residual-NaN fallback of preprocess_data.
FallbackFilled(d) == IF CountMissing(d) > 0 THEN FillNa0(d) ELSE d

\* df.drop('CUST_ID', axis=1)
DropColumn(d, col) ==
    LET cs == d.columns \ {col} IN
    [d EXCEPT !.columns = cs,
              !.dtypes = [c \in cs |-> d.dtypes[c]],
              !.rows = [i \in 1..Len(d.rows) |-> [c \in cs |-> d.rows[i][c]]]]

\* ------------------------------------------------------------------ to_csv
\* One cell as DataFrame.to_csv writes it: a missing value as the empty
\* token, a float64 with its decimal point, anything else by str().
FormatCell(cell, dtype) ==
    IF cell.tag = "nan" THEN ""
    ELSE IF cell.tag = "str" THEN cell.str
    ELSE IF dtype = "float64" THEN ToString(cell.num) \o ".0"
    ELSE ToString(cell.num)

\* df.to_csv(path, index=False): the index is not written.
ToCsv(d) ==
    [columns |-> d.columns,
     rows |-> [i \in 1..Len(d.rows) |->
                 [c \in d.columns |-> FormatCell(d.rows[i][c], d.dtypes[c])]]]

\* ------------------------------------------------------------------ training
\* StandardScaler().fit(df): per feature the sample size, the sum and the sum
\* of squares, from which mean_ and var_ are sum/n and sumsq/n - (sum/n)^2.
ScalerFit(d) ==
    [c \in d.columns |->
       [n     |-> Len(d.rows),
        sum   |-> SeqSum([i \in 1..Len(d.rows) |-> d.rows[i][c].num]),
        sumsq |-> SeqSum([i \in 1..Len(d.rows) |-> d.rows[i][c].num * d.rows[i][c].num])]]

NoKMeans == [n_clusters |-> 0, labels |-> <<>>, inertia |-> 0]

\* float(kmeans.inertia_), a non-negative real, abstracted to its sign:
\* 0 is zero, 1 is any positive value.
Inertias == {0, 1}

\* What KMeans(n_clusters=k, random_state=42, n_init=10).fit(X) can leave in
\* the estimator for n samples: labels_ indexes the k rows of
\* cluster_centers_, inertia_ is a non-negative number.  The library's choice
\* among them is not modelled: every such outcome is allowed.
FitOutcomes(k, n) ==
    [n_clusters : {k}, labels : [1..n -> 0..(k - 1)], inertia : Inertias]

\* The metrics dictionary of train_model.
\* Variant: n_clusters counts the clusters that have a point.
MetricsOf_CountUsed(k, km, d) ==
    [n_clusters |-> Cardinality(Range(km.labels)),
     inertia    |-> km.inertia,
     n_samples  |-> Len(d.rows),
     n_features |-> Cardinality(d.columns)]
MetricsOf(k, km, d) ==
    [n_clusters |-> k,
     inertia    |-> km.inertia,
     n_samples  |-> Len(d.rows),
     n_features |-> Cardinality(d.columns)]

\* ------------------------------------------------------------------ files
EmptyText == [columns |-> {}, rows |-> <<>>]
NoModel == [kmeans |-> NoKMeans, scaler |-> <<>>]
NoMetrics == [n_clusters |-> 0, inertia |-> 0, n_samples |-> 0, n_features |-> 0]

Absent(empty) == [st |-> "absent", data |-> empty]
\* open(path, 'w'): the file exists and is empty until the content is written.
Opened(empty) == [st |-> "partial", data |-> empty]
Complete(content) == [st |-> "complete", data |-> content]

\* ------------------------------------------------------------------ inputs
IdTokens == {"", "A", "0"}
BalTokens == {"", "100", "300"}
Tokens(c) == IF c = "CUST_ID" THEN IdTokens ELSE BalTokens
\* The identifier column is optional; the feature column holds numbers only.
Schemas == {{"BALANCE"}, {"CUST_ID", "BALANCE"}}

TextRows(cols) == {r \in [cols -> IdTokens \cup BalTokens] : \A c \in cols : r[c] \in Tokens(c)}
TextTables(maxRows) ==
    UNION {[columns : {cols}, rows : [1..n -> TextRows(cols)]] :
             cols \in Schemas, n \in 1..maxRows}

\* The six-row, one-column table of the end-to-end scenario.
Scenario ==
    [columns |-> {"BALANCE"},
     rows |-> <<[BALANCE |-> "100"], [BALANCE |-> ""], [BALANCE |-> "300"],
                [BALANCE |-> "300"], [BALANCE |-> ""], [BALANCE |-> "100"]>>]

\* Files left by an earlier run.
OldModel == [kmeans |-> [n_clusters |-> 1, labels |-> <<0>>, inertia |-> 0],
             scaler |-> [c \in {"BALANCE"} |-> [n |-> 1, sum |-> 100, sumsq |-> 10000]]]
OldMetrics == [n_clusters |-> 1, inertia |-> 0, n_samples |-> 1, n_features |-> 1]

\* ------------------------------------------------------------------ state
VARIABLES
    pc,             \* position in preprocess_data / train_model
    error,          \* the exception that ended the run, "" if none
    df,             \* the local DataFrame of the running function
    n_clusters,     \* the n_clusters argument of train_model
    scaler,         \* the fitted StandardScaler
    kmeans,         \* the fitted KMeans
    rawFile,        \* data/CC_GENERAL.csv
    processedFile,  \* data/processed.csv
    modelFile,      \* models/model.pkl
    metricsFile     \* metrics.json

vars == <<pc, error, df, n_clusters, scaler, kmeans,
          rawFile, processedFile, modelFile, metricsFile>>

locals == <<df, n_clusters, scaler, kmeans>>
files == <<rawFile, processedFile, modelFile, metricsFile>>

Init ==
    /\ pc = "idle"
    /\ error = ""
    /\ df = NoDF
    /\ n_clusters = 0
    /\ scaler = <<>>
    /\ kmeans = NoKMeans
    /\ \/ \* a fresh checkout: only the raw data exists
          /\ rawFile \in {Complete(t) : t \in TextTables(MaxRows) \cup {Scenario}}
          /\ processedFile = Absent(EmptyText)
          /\ modelFile = Absent(NoModel)
          /\ metricsFile = Absent(NoMetrics)
       \/ \* only a processed table exists, with or without earlier outputs
          /\ rawFile = Absent(EmptyText)
          /\ processedFile \in {Complete(t) : t \in TextTables(MaxPriorRows)}
          /\ \/ modelFile = Absent(NoModel) /\ metricsFile = Absent(NoMetrics)
             \/ modelFile = Complete(OldModel) /\ metricsFile = Complete(OldMetrics)

\* An exception propagates out of the script: the run is over.
Raise(e) == pc' = "failed" /\ error' = e

\* ------------------------------------------------------------------ preprocess_data
PreLoad ==
    /\ pc = "idle"
    /\ rawFile.st = "complete"
    /\ df' = ReadCsv(rawFile.data)
    /\ pc' = "impute"
    /\ UNCHANGED <<error, n_clusters, scaler, kmeans, files>>

PreLoadFail ==
    /\ pc = "idle"
    /\ rawFile.st # "complete"
    /\ Raise("InputReadError")
    /\ UNCHANGED <<locals, files>>

Impute ==
    /\ pc = "impute"
    /\ df' = Imputed(df)
    /\ pc' = "dedup"
    /\ UNCHANGED <<error, n_clusters, scaler, kmeans, files>>

Dedup ==
    /\ pc = "dedup"
    /\ df' = DropDuplicates(df)
    /\ pc' = "verify"
    /\ UNCHANGED <<error, n_clusters, scaler, kmeans, files>>

Verify ==
    /\ pc = "verify"
    /\ df' = FallbackFilled(df)
    /\ pc' = "save"
    /\ UNCHANGED <<error, n_clusters, scaler, kmeans, files>>

\* df.to_csv opens the destination for writing, then writes the rows.
SaveOpen ==
    /\ pc = "save"
    /\ processedFile' = Opened(EmptyText)
    /\ pc' = "save_write"
    /\ UNCHANGED <<error, locals, rawFile, modelFile, metricsFile>>

SaveOpenFail ==
    /\ pc = "save"
    /\ Raise("PersistenceError")
    /\ UNCHANGED <<locals, files>>

SaveWrite ==
    /\ pc = "save_write"
    /\ processedFile' = Complete(ToCsv(df))
    /\ pc' = "cleaned"
    /\ UNCHANGED <<error, locals, rawFile, modelFile, metricsFile>>

SaveWriteFail ==
    /\ pc = "save_write"
    /\ Raise("PersistenceError")
    /\ UNCHANGED <<locals, files>>

\* ------------------------------------------------------------------ train_model
TrainLoad ==
    /\ pc \in {"idle", "cleaned"}
    /\ processedFile.st = "complete"
    /\ \E k \in 1..MaxK : n_clusters' = k
    /\ df' = ReadCsv(processedFile.data)
    /\ scaler' = <<>>
    /\ kmeans' = NoKMeans
    /\ pc' = "drop_id"
    /\ UNCHANGED <<error, files>>

TrainLoadFail ==
    /\ pc \in {"idle", "cleaned"}
    /\ processedFile.st # "complete"
    /\ Raise("InputReadError")
    /\ UNCHANGED <<locals, files>>

DropId ==
    /\ pc = "drop_id"
    /\ df' = IF "CUST_ID" \in df.columns THEN DropColumn(df, "CUST_ID") ELSE df
    /\ pc' = "validate"
    /\ UNCHANGED <<error, n_clusters, scaler, kmeans, files>>

\* Variant: missing values are filled and training goes on.
Validate_SilentFill ==
    /\ pc = "validate"
    /\ df' = FillNa0(df)
    /\ pc' = "scale"
    /\ UNCHANGED <<error, n_clusters, scaler, kmeans, files>>
Validate ==
    /\ pc = "validate"
    /\ IF CountMissing(df) > 0
       THEN Raise("ValueError")
       ELSE pc' = "scale" /\ error' = error
    /\ UNCHANGED <<locals, files>>

Standardize ==
    /\ pc = "scale"
    /\ scaler' = ScalerFit(df)
    /\ pc' = "fit"
    /\ UNCHANGED <<error, df, n_clusters, kmeans, files>>

\* KMeans.fit refuses fewer samples than clusters.
Fit ==
    /\ pc = "fit"
    /\ Len(df.rows) >= n_clusters
    /\ kmeans' \in FitOutcomes(n_clusters, Len(df.rows))
    /\ pc' = "model"
    /\ UNCHANGED <<error, df, n_clusters, scaler, files>>

FitFail ==
    /\ pc = "fit"
    /\ Len(df.rows) < n_clusters
    /\ Raise("ValueError")
    /\ UNCHANGED <<locals, files>>

ModelOpen ==
    /\ pc = "model"
    /\ modelFile' = Opened(NoModel)
    /\ pc' = "model_write"
    /\ UNCHANGED <<error, locals, rawFile, processedFile, metricsFile>>

ModelOpenFail ==
    /\ pc = "model"
    /\ Raise("PersistenceError")
    /\ UNCHANGED <<locals, files>>

ModelWrite ==
    /\ pc = "model_write"
    /\ modelFile' = Complete([kmeans |-> kmeans, scaler |-> scaler])
    /\ pc' = "metrics"
    /\ UNCHANGED <<error, locals, rawFile, processedFile, metricsFile>>

ModelWriteFail ==
    /\ pc = "model_write"
    /\ Raise("PersistenceError")
    /\ UNCHANGED <<locals, files>>

MetricsOpen ==
    /\ pc = "metrics"
    /\ metricsFile' = Opened(NoMetrics)
    /\ pc' = "metrics_write"
    /\ UNCHANGED <<error, locals, rawFile, processedFile, modelFile>>

MetricsOpenFail ==
    /\ pc = "metrics"
    /\ Raise("PersistenceError")
    /\ UNCHANGED <<locals, files>>

MetricsWrite ==
    /\ pc = "metrics_write"
    /\ metricsFile' = Complete(MetricsOf(n_clusters, kmeans, df))
    /\ pc' = "done"
    /\ UNCHANGED <<error, locals, rawFile, processedFile, modelFile>>

MetricsWriteFail ==
    /\ pc = "metrics_write"
    /\ Raise("PersistenceError")
    /\ UNCHANGED <<locals, files>>

Next ==
    \/ PreLoad \/ PreLoadFail \/ Impute \/ Dedup \/ Verify
    \/ SaveOpen \/ SaveOpenFail \/ SaveWrite \/ SaveWriteFail
    \/ TrainLoad \/ TrainLoadFail \/ DropId \/ Validate \/ Standardize
    \/ Fit \/ FitFail
    \/ ModelOpen \/ ModelOpenFail \/ ModelWrite \/ ModelWriteFail
    \/ MetricsOpen \/ MetricsOpenFail \/ MetricsWrite \/ MetricsWriteFail

Spec == Init /\ [][Next]_vars

\* ================================================================== properties
\* Vocabulary of the properties, stated on the text of the files and on the
\* cells, independently of the operators of the model.
HasMissing(d) == \E i \in 1..Len(d.rows) : \E c \in d.columns : d.rows[i][c].tag = "nan"

TextHasMissing(text) == \E i \in 1..Len(text.rows) : \E c \in text.columns : text.rows[i][c] = ""

\* A column of a DataFrame is numeric when its dtype is a number type.
IsNumericCol(d, c) == d.dtypes[c] \in {"int64", "float64"}

\* A column of a text table is non-numeric when some token of it is neither
\* empty nor a number.
IsTextCol(text, c) ==
    \E i \in 1..Len(text.rows) : text.rows[i][c] \notin {"", "0", "100", "300"}

\* The positions of the non-missing entries of column c.
Present(d, c) == {i \in 1..Len(d.rows) : d.rows[i][c].tag # "nan"}

\* x is the k-th smallest of the non-missing values of column c.
IsKth(d, c, x, k) ==
    /\ Cardinality({i \in Present(d, c) : d.rows[i][c].num < x}) < k
    /\ k <= Cardinality({i \in Present(d, c) : d.rows[i][c].num <= x})

\* m is the median of the non-missing values of column c (there is one).
IsMedian(d, c, m) ==
    LET n == Cardinality(Present(d, c))
        vals == {d.rows[i][c].num : i \in Present(d, c)}
    IN IF n % 2 = 1
       THEN IsKth(d, c, m, (n + 1) \div 2)
       ELSE \E x \in vals, y \in vals :
              /\ IsKth(d, c, x, n \div 2)
              /\ IsKth(d, c, y, n \div 2 + 1)
              /\ 2 * m = x + y

SameShape(a, b) ==
    /\ b.columns = a.columns
    /\ Len(b.rows) = Len(a.rows)

\* C1: for every input table, the table that preprocess_data persists
\* contains no missing value in any column, numeric or not: none is left in
\* the DataFrame handed to to_csv and no empty token is in the written file.
C1_NoMissingPersisted ==
    /\ pc \in {"save", "save_write", "cleaned"} => ~HasMissing(df)
    /\ (rawFile.st = "complete" /\ processedFile.st = "complete")
          => ~TextHasMissing(processedFile.data)

\* C1 witness: a table with a missing identifier in a text column and a
\* missing balance has been cleaned and written.
C1_Witness ==
    /\ pc = "cleaned"
    /\ "CUST_ID" \in rawFile.data.columns
    /\ IsTextCol(rawFile.data, "CUST_ID")
    /\ \E i \in 1..Len(rawFile.data.rows) : rawFile.data.rows[i]["CUST_ID"] = ""
    /\ \E i \in 1..Len(rawFile.data.rows) : rawFile.data.rows[i]["BALANCE"] = ""

\* C2: when the table read by train_model, after CUST_ID is dropped, has a
\* missing value, the run ends in a fatal error at the validation step: the
\* table is not filled, no file is created or modified, and nothing runs
\* afterwards; when it has none, the table goes on unchanged to scaling.
C2_ValidatorStep ==
    /\ pc = "validate" =>
          IF HasMissing(df)
          THEN /\ pc' = "failed"
               /\ error' = "ValueError"
               /\ df' = df
               /\ scaler' = <<>>
               /\ kmeans' = NoKMeans
               /\ modelFile' = modelFile
               /\ metricsFile' = metricsFile
          ELSE /\ pc' = "scale"
               /\ df' = df
    /\ pc = "failed" => UNCHANGED vars

C2_ValidatorFailsFatally == [][C2_ValidatorStep]_vars

\* C2 witness: a run failed on a table with a missing feature value while an
\* earlier model file was on disk.
C2_Witness ==
    /\ pc = "failed"
    /\ error = "ValueError"
    /\ HasMissing(df)
    /\ modelFile.st = "complete"

\* The relation between the table before (a) and after (b) the imputation
\* loop, on the numeric columns.
ImputeContract(a, b) ==
    /\ SameShape(a, b)
    /\ \A c \in a.columns : IsNumericCol(a, c) =>
         \A i \in 1..Len(a.rows) :
            IF a.rows[i][c].tag = "nan"
            THEN /\ b.rows[i][c].tag = "num"
                 /\ IF Present(a, c) = {}
                    THEN b.rows[i][c].num = 0
                    ELSE IsMedian(a, c, b.rows[i][c].num)
            ELSE b.rows[i][c] = a.rows[i][c]

\* C3: the imputation step replaces every missing entry of a numeric column
\* by the median of the column's non-missing values, or by 0 when it has
\* none, and leaves every other entry of the numeric columns unchanged.
C3_ImputationContract == [][pc = "impute" => ImputeContract(df, df')]_vars

\* C3 witness: a missing balance was filled with 200, the mean of the two
\* middle values 100 and 300.
C3_Witness ==
    /\ pc = "dedup"
    /\ \E i \in 1..Len(df.rows) :
          /\ rawFile.data.rows[i]["BALANCE"] = ""
          /\ df.rows[i]["BALANCE"] = Num(200)

\* The positions of the rows of a that no earlier row equals.
FirstOccurrences(a) ==
    {i \in 1..Len(a.rows) : \A j \in 1..(i - 1) : a.rows[j] # a.rows[i]}

\* The j-th smallest element of a set of positions.
NthOf(K, j) == CHOOSE i \in K : Cardinality({x \in K : x <= i}) = j

\* The relation between the table before (a) and after (b) duplicate removal.
DedupContract(a, b) ==
    LET K == FirstOccurrences(a) IN
    /\ b.columns = a.columns
    /\ Len(b.rows) = Cardinality(K)
    /\ \A j \in 1..Len(b.rows) : b.rows[j] = a.rows[NthOf(K, j)]

\* C4: duplicate removal removes exactly the rows equal in every column to
\* an earlier row; the first occurrences survive in their original order.
C4_DedupContract == [][pc = "dedup" => DedupContract(df, df')]_vars

\* C4 witness: of three rows one was removed as a duplicate of the first,
\* with a different row in between.
C4_Witness ==
    /\ pc = "verify"
    /\ Len(rawFile.data.rows) = 3
    /\ rawFile.data.rows[1] = rawFile.data.rows[3]
    /\ rawFile.data.rows[1] # rawFile.data.rows[2]
    /\ Len(df.rows) = 2

\* C5: after a fit with cluster count k the labels use at most k distinct
\* cluster indices, and the n_clusters field of the metrics written by the
\* run equals k.
C5_ClusterCount ==
    /\ pc \in {"model", "model_write", "metrics", "metrics_write", "done"}
          => Cardinality(Range(kmeans.labels)) <= n_clusters
    /\ pc = "done" => metricsFile.data.n_clusters = n_clusters

\* C5 witness: a finished run in which a cluster has no point.
C5_Witness ==
    /\ pc = "done"
    /\ Cardinality(Range(kmeans.labels)) < n_clusters

\* The BALANCE column of a DataFrame as a sequence of numbers.
Balances(d) == [i \in 1..Len(d.rows) |-> d.rows[i]["BALANCE"].num]

\* C7 as stated: on the scenario table both missing balances are filled with
\* 200 and duplicate removal leaves the 4 rows 100, 200, 300, 200.
C7_ScenarioAsStated ==
    rawFile = Complete(Scenario) =>
       /\ pc = "dedup" => ~HasMissing(df) /\ Balances(df) = <<100, 200, 300, 300, 200, 100>>
       /\ pc = "verify" => ~HasMissing(df) /\ Balances(df) = <<100, 200, 300, 200>>

\* C7 amended: on the scenario table both missing balances are filled with
\* 200 and duplicate removal leaves the 3 rows 100, 200, 300: the second 200
\* is a duplicate of the first.
C7_ScenarioAmended ==
    rawFile = Complete(Scenario) =>
       /\ pc = "dedup" => ~HasMissing(df) /\ Balances(df) = <<100, 200, 300, 300, 200, 100>>
       /\ pc = "verify" => ~HasMissing(df) /\ Balances(df) = <<100, 200, 300>>

\* C7 witness: the scenario table has been imputed and deduplicated.
C7_Witness == rawFile = Complete(Scenario) /\ pc = "verify"

\* The row of the raw file that row j of the DataFrame came from.
RawRowOf(j) == rawFile.data.rows[df.index[j] + 1]

\* C8 as stated: every entry of a non-numeric column, a missing one included,
\* is in the persisted table as it is in the input row it came from.
C8_TextColumnsAsStated ==
    pc = "cleaned" =>
       \A c \in rawFile.data.columns : IsTextCol(rawFile.data, c) =>
          \A j \in 1..Len(processedFile.data.rows) :
             processedFile.data.rows[j][c] = RawRowOf(j)[c]

\* C8 amended: the imputation step leaves the non-numeric columns as read; in
\* the persisted table a non-missing entry of a non-numeric column is as in
\* the input row it came from, and a missing one is written as 0.
C8_TextColumnsAmended ==
    /\ pc = "dedup" =>
          \A c \in rawFile.data.columns : IsTextCol(rawFile.data, c) =>
             \A i \in 1..Len(df.rows) :
                df.rows[i][c] = IF rawFile.data.rows[i][c] = "" THEN NaN
                                ELSE Str(rawFile.data.rows[i][c])
    /\ pc = "cleaned" =>
          \A c \in rawFile.data.columns : IsTextCol(rawFile.data, c) =>
             \A j \in 1..Len(processedFile.data.rows) :
                processedFile.data.rows[j][c] =
                   IF RawRowOf(j)[c] = "" THEN "0" ELSE RawRowOf(j)[c]

\* C8 witness: a table whose text identifier column has a missing entry has
\* been written.
C8_Witness ==
    /\ pc = "cleaned"
    /\ "CUST_ID" \in rawFile.data.columns
    /\ IsTextCol(rawFile.data, "CUST_ID")
    /\ \E j \in 1..Len(df.rows) : RawRowOf(j)["CUST_ID"] = ""

\* C9: after a failed run no destination holds a partial file: each holds
\* its previous content, nothing, or a complete file.
C9_NoPartialFileAfterFailure ==
    pc = "failed" =>
       /\ processedFile.st # "partial"
       /\ modelFile.st # "partial"
       /\ metricsFile.st # "partial"

\* C10: the table persisted by preprocess_data has no two rows equal in
\* every column.
C10_NoDuplicatePersisted ==
    (rawFile.st = "complete" /\ processedFile.st = "complete") =>
       \A i \in 1..Len(processedFile.data.rows) :
          \A j \in 1..(i - 1) :
             processedFile.data.rows[j] # processedFile.data.rows[i]

====
